---- MODULE Spec2Model ----
(***************************************************************************)
(* Model of pkg/purgeman/service.go: the event handler fsEventHandler,     *)
(* the identifier resolution fetchIRODSPath and the fan-out purgeCache.    *)
(*                                                                         *)
(* Strings are sequences of one-character strings, so that TrimRight,      *)
(* concatenation and URL parsing are computed character by character.      *)
(* Indices of Go slices are kept 0-based in idx; the TLA+ sequences that   *)
(* hold the slices are 1-based, hence the "+ 1" where a slice is read.     *)
(***************************************************************************)
EXTENDS Integers, Sequences, FiniteSets, TLC

\* ------------------------------------------------------------------ bounds
MaxTargets == 2
MaxEntries == 2
MaxLifeCalls == 4

\* ----------------------------------------------------------------- strings
Empty == << >>
Http == <<"h", "t", "t", "p", ":", "/", "/">>
Cache1 == <<"c", "1">>
Cache2 == <<"c", "2">>
Cache3 == <<"c", "3">>
EdgeExample == <<"e", "d", "g", "e", ".", "e", "x", "a", "m", "p", "l", "e">>

\* URL prefixes a configuration may hold: one trailing slash, several
\* trailing slashes, and one that ends in a control character (a line break
\* left in the configuration value), which url.Parse rejects.
PrefixPool ==
    { Http \o Cache1 \o <<"/">>,
      Http \o Cache2 \o <<"/", "/">>,
      Http \o Cache3 \o <<"\n">> }

OverridePool == { Empty, EdgeExample }

Paths == { Empty, <<"/", "x">>, <<"/">> }
Uuids == { Empty, <<"u", "1">> }
EntryPaths == { <<"/", "x">>, <<"/">> }

\* Outcomes of one HTTP round trip: a transport error or a status code.
TransportError == -1
StatusCodes == { 199, 200, 299, 300 }
Responses == StatusCodes \cup { TransportError }

SeqsUpTo(S, n) == UNION { [1..k -> S] : k \in 0..n }

\* -------------------------------------------------------- pure functions
\* strings.TrimRight(s, cutset): s without its trailing characters of cutset
RECURSIVE TrimRight(_, _)
TrimRight(s, cutset) ==
    IF s = Empty \/ s[Len(s)] \notin cutset
    THEN s
    ELSE TrimRight(SubSeq(s, 1, Len(s) - 1), cutset)

\* position of the first character of s at or after from that is in chars,
\* Len(s) + 1 when there is none
FirstIn(s, from, chars) ==
    IF \E k \in from..Len(s) : s[k] \in chars
    THEN CHOOSE k \in from..Len(s) :
            /\ s[k] \in chars
            /\ \A j \in from..(k - 1) : s[j] \notin chars
    ELSE Len(s) + 1

CTLBytes == { "\n" }
SchemeChars ==
    { "a", "b", "c", "d", "e", "f", "g", "h", "i", "j", "k", "l", "m", "n",
      "o", "p", "q", "r", "s", "t", "u", "v", "w", "x", "y", "z",
      "0", "1", "2", "3", "4", "5", "6", "7", "8", "9", "+", "-", "." }

\* url.getScheme: the position of the ':' that ends the scheme, 0 when the
\* URL has no scheme
SchemeEnd(s) ==
    LET k == CHOOSE j \in 1..(Len(s) + 1) :
                 /\ (j <= Len(s) => s[j] \notin SchemeChars)
                 /\ \A i \in 1..(j - 1) : s[i] \in SchemeChars
    IN IF k <= Len(s) /\ s[k] = ":" /\ k > 1 THEN k ELSE 0

\* url.Parse fails on a control character and on a URL that starts with ':'
UrlParseFails(s) ==
    \/ \E k \in 1..Len(s) : s[k] \in CTLBytes
    \/ (Len(s) > 0 /\ s[1] = ":")

\* url.Parse(s).Host: the authority between "//" and the next '/'
UrlHost(s) ==
    LET k == SchemeEnd(s)
        rest == SubSeq(s, k + 1, Len(s))
    IN IF Len(rest) >= 2 /\ rest[1] = "/" /\ rest[2] = "/"
          /\ (k > 0 \/ ~(Len(rest) >= 3 /\ rest[3] = "/"))
       THEN SubSeq(rest, 3, FirstIn(rest, 3, {"/"}) - 1)
       ELSE Empty

\* http.NewRequest parses the URL with url.Parse; the method "PURGE" is valid
NewRequestFails(url) == UrlParseFails(url)

\* a variant of fetchIRODSPath that takes the first of several entries
fetchIRODSPathFirst(err, entries) ==
    IF ~err /\ Len(entries) >= 1 THEN entries[1] ELSE Empty

\* fetchIRODSPath, lines 113-125
fetchIRODSPath(err, entries) ==
    IF ~err /\ Len(entries) = 1 THEN entries[1] ELSE Empty

\* the check of the response status, line 202
StatusLow == 200
StatusHigh == 300

\* a variant of the status test that lets the upper limit pass
UnexpectedStatusOffByOne(code) == code < StatusLow \/ code > StatusHigh

UnexpectedStatus(code) == code < StatusLow \/ code >= StatusHigh

\* ------------------------------------------------------------------ state
\* Callback invocations the message-queue monitor may have running at once.
Calls == { 1, 2 }

VARIABLES
    VarnishURLPrefixes,    \* svc.Config.VarnishURLPrefixes
    VarnishHostsOverride,  \* svc.Config.VarnishHostsOverride
    deliveries,            \* the invocations of fsEventHandler the monitor uses
    pc,                    \* per invocation: idle, search, purge, loop, wait, returned
    evPath,                \* fsEventHandler's parameter path
    evUuid,                \* fsEventHandler's parameter uuid
    search,                \* the outcome of SearchByMeta of this invocation
    searches,              \* number of SearchByMeta calls of this invocation
    purges,                \* number of purgeCache calls of this invocation
    iRODSPath,             \* fsEventHandler's iRODSPath, purgeCache's path
    idx,                   \* purgeCache's loop variable idx (shared by closures)
    iter,                  \* number of loop iterations started
    wg,                    \* the WaitGroup counter
    task,                  \* the goroutines of this purgeCache call, by target
    crashed,               \* a goroutine panicked: the process is gone
    IRODSClient,           \* svc.IRODSClient: Nil or the number of a session
    MessageQueueConnection, \* svc.MessageQueueConnection: Nil or a connection
    sessions,              \* per storage session acquired: times released
    connections,           \* per queue connection acquired: times disconnected
    lastCall,              \* the last of Connect, Start, Destroy and what it did
    lifeCalls              \* number of Connect, Start and Destroy calls made

life ==
    << IRODSClient, MessageQueueConnection, sessions, connections, lastCall,
       lifeCalls >>

vars ==
    << VarnishURLPrefixes, VarnishHostsOverride, deliveries, pc, evPath, evUuid,
       search, searches, purges, iRODSPath, idx, iter, wg, task, crashed, life >>

Nil == 0

\* what a call of Connect, Start or Destroy did: whether it returned an
\* error, how many Release and Disconnect calls it made, the call before it
Called(op, err, releases, disconnects) ==
    [ op |-> op, err |-> err, releases |-> releases, disconnects |-> disconnects,
      prev |-> lastCall.op ]

config == << VarnishURLPrefixes, VarnishHostsOverride, deliveries >>

NumTargets == Len(VarnishURLPrefixes)
Targets == 1..NumTargets

NoSearch == [made |-> FALSE, err |-> FALSE, entries |-> << >>]

NoResponse == 0

\* A goroutine that runs the closure f: pc none (not spawned), start (line
\* 159), readOverride (line 166), inflight (inside http.DefaultClient.Do),
\* done (returned, wg.Done called).
NoTask ==
    [ pc |-> "none", urlPrefix |-> Empty, requestURL |-> Empty,
      hostOverride |-> Empty, host |-> Empty, reqHost |-> Empty,
      sent |-> 0, resp |-> NoResponse, outcome |-> "none", dones |-> 0 ]

\* the configured lists of distinct cache nodes
TargetLists ==
    { l \in SeqsUpTo(PrefixPool, MaxTargets) :
        \A i, j \in 1..Len(l) : i # j => l[i] # l[j] }

Init ==
    /\ VarnishURLPrefixes \in TargetLists
    /\ VarnishHostsOverride \in SeqsUpTo(OverridePool, Len(VarnishURLPrefixes))
    /\ deliveries = { 1 }
    /\ pc = [c \in Calls |-> "idle"]
    /\ evPath = [c \in Calls |-> Empty]
    /\ evUuid = [c \in Calls |-> Empty]
    /\ search = [c \in Calls |-> NoSearch]
    /\ searches = [c \in Calls |-> 0]
    /\ purges = [c \in Calls |-> 0]
    /\ iRODSPath = [c \in Calls |-> Empty]
    /\ idx = [c \in Calls |-> 0]
    /\ iter = [c \in Calls |-> 0]
    /\ wg = [c \in Calls |-> 0]
    /\ task = [c \in Calls |-> [i \in Targets |-> NoTask]]
    /\ crashed = FALSE
    /\ IRODSClient = 1
    /\ MessageQueueConnection = 1
    /\ sessions = << 0 >>
    /\ connections = << 0 >>
    /\ lastCall = [ op |-> "Start", err |-> FALSE, releases |-> 0,
                    disconnects |-> 0, prev |-> "Connect" ]
    /\ lifeCalls = 2

\* --------------------------------------------------------- fsEventHandler
\* a variant that resolves whenever an identifier is given
NeedsResolveAnyUuid(path, uuid) == Len(uuid) > 0

\* line 135: the identifier is resolved only when the path is empty
NeedsResolve(path, uuid) == Len(path) = 0 /\ Len(uuid) > 0

\* lines 128-135: the monitor delivers an event; an invocation that returned
\* may be delivered the next event
fsEventHandler(c, path, uuid) ==
    /\ ~crashed
    /\ c \in deliveries
    /\ pc[c] \in { "idle", "returned" }
    /\ evPath' = [evPath EXCEPT ![c] = path]
    /\ evUuid' = [evUuid EXCEPT ![c] = uuid]
    /\ iRODSPath' = [iRODSPath EXCEPT ![c] = path]
    /\ search' = [search EXCEPT ![c] = NoSearch]
    /\ searches' = [searches EXCEPT ![c] = 0]
    /\ purges' = [purges EXCEPT ![c] = 0]
    /\ pc' = [pc EXCEPT ![c] = IF NeedsResolve(path, uuid) THEN "search" ELSE "purge"]
    /\ idx' = [idx EXCEPT ![c] = 0]
    /\ iter' = [iter EXCEPT ![c] = 0]
    /\ wg' = [wg EXCEPT ![c] = 0]
    /\ task' = [task EXCEPT ![c] = [i \in Targets |-> NoTask]]
    /\ UNCHANGED << config, life, crashed >>

\* a variant of the handler that gives up when the resolution fails
SearchByMetaAborts(c, err, entries) ==
    /\ ~crashed
    /\ pc[c] = "search"
    /\ search' = [search EXCEPT ![c] =
                     [made |-> TRUE, err |-> err, entries |-> entries]]
    /\ searches' = [searches EXCEPT ![c] = @ + 1]
    /\ iRODSPath' = [iRODSPath EXCEPT ![c] = fetchIRODSPath(err, entries)]
    /\ pc' = [pc EXCEPT ![c] =
                 IF fetchIRODSPath(err, entries) = Empty THEN "returned" ELSE "purge"]
    /\ UNCHANGED << config, life, evPath, evUuid, purges, idx, iter, wg, task, crashed >>

\* lines 137, 113-125: SearchByMeta answers with an error or with a list of
\* entries, each holding a path, and fetchIRODSPath's result becomes iRODSPath
SearchByMeta(c, err, entries) ==
    /\ ~crashed
    /\ pc[c] = "search"
    /\ search' = [search EXCEPT ![c] =
                     [made |-> TRUE, err |-> err, entries |-> entries]]
    /\ searches' = [searches EXCEPT ![c] = @ + 1]
    /\ iRODSPath' = [iRODSPath EXCEPT ![c] = fetchIRODSPath(err, entries)]
    /\ pc' = [pc EXCEPT ![c] = "purge"]
    /\ UNCHANGED << config, life, evPath, evUuid, purges, idx, iter, wg, task, crashed >>

\* ------------------------------------------------------------- purgeCache
\* The closure f of line 158 captures idx, the one variable of the range
\* statement of line 155 that every iteration assigns (the loop semantics of
\* Go before 1.22).  The goroutines read it at lines 165 and 166 while the loop
\* writes it: each read yields the value the loop has assigned last.
\* lines 140-154: the handler calls purgeCache(iRODSPath), which creates its
\* WaitGroup; the entries of the search are out of scope by now
purgeCache(c) ==
    /\ ~crashed
    /\ pc[c] = "purge"
    /\ purges' = [purges EXCEPT ![c] = @ + 1]
    /\ search' = [search EXCEPT ![c] = NoSearch]
    /\ wg' = [wg EXCEPT ![c] = 0]
    /\ pc' = [pc EXCEPT ![c] = "loop"]
    /\ UNCHANGED << config, life, evPath, evUuid, searches, iRODSPath, idx, iter, task,
                    crashed >>

\* a variant of the loop that starts a goroutine only when the ones before
\* it have finished
PurgeLoopSequential(c) ==
    /\ ~crashed
    /\ pc[c] = "loop"
    /\ iter[c] < NumTargets
    /\ \A i \in 1..iter[c] : task[c][i].pc = "done"
    /\ idx' = [idx EXCEPT ![c] = iter[c]]
    /\ wg' = [wg EXCEPT ![c] = @ + 1]
    /\ task' = [task EXCEPT ![c][iter[c] + 1] =
                   [NoTask EXCEPT !.pc = "start",
                                  !.urlPrefix = VarnishURLPrefixes[iter[c] + 1]]]
    /\ iter' = [iter EXCEPT ![c] = @ + 1]
    /\ UNCHANGED << config, life, pc, evPath, evUuid, search, searches, purges, iRODSPath, crashed >>

\* lines 155-156, 210: one iteration of the range loop assigns idx, adds one
\* to the WaitGroup and starts the goroutine with the prefix as its argument
PurgeLoop(c) ==
    /\ ~crashed
    /\ pc[c] = "loop"
    /\ iter[c] < NumTargets
    /\ idx' = [idx EXCEPT ![c] = iter[c]]
    /\ wg' = [wg EXCEPT ![c] = @ + 1]
    /\ task' = [task EXCEPT ![c][iter[c] + 1] =
                   [NoTask EXCEPT !.pc = "start",
                                  !.urlPrefix = VarnishURLPrefixes[iter[c] + 1]]]
    /\ iter' = [iter EXCEPT ![c] = @ + 1]
    /\ UNCHANGED << config, life, pc, evPath, evUuid, search, searches, purges, iRODSPath, crashed >>

\* lines 211-213: the loop is over and the caller reaches wg.Wait()
PurgeJoin(c) ==
    /\ ~crashed
    /\ pc[c] = "loop"
    /\ iter[c] = NumTargets
    /\ pc' = [pc EXCEPT ![c] = "wait"]
    /\ UNCHANGED << config, life, evPath, evUuid, search, searches, purges, iRODSPath, idx, iter,
                    wg, task, crashed >>

\* a variant of the join that does not wait
WaitReturnsAtOnce(counter) == TRUE

\* line 213: wg.Wait() returns when the counter is zero
WaitReturns(counter) == counter = 0

\* lines 213-214, 141-142: purgeCache and then fsEventHandler return
PurgeReturn(c) ==
    /\ ~crashed
    /\ pc[c] = "wait"
    /\ WaitReturns(wg[c])
    /\ pc' = [pc EXCEPT ![c] = "returned"]
    /\ UNCHANGED << config, life, evPath, evUuid, search, searches, purges, iRODSPath, idx, iter,
                    wg, task, crashed >>

\* ---------------------------------------------------------- the closure f
\* a variant in which the exit on a URL that does not parse misses wg.Done
FinishedSkipsDone(t, outcome) ==
    [t EXCEPT !.pc = "done", !.outcome = outcome,
              !.dones = IF outcome = "parse_error" THEN @ ELSE @ + 1]

\* line 159: defer wg.Done() runs once when the closure returns
Finished(t, outcome) ==
    [t EXCEPT !.pc = "done", !.outcome = outcome, !.dones = @ + 1]

\* a variant that goes on to send whatever the parse and the construction
\* of the request report
BuildAndSendIgnoresErrors(t, hostOverride) ==
    [t EXCEPT !.hostOverride = hostOverride,
              !.host = IF Len(hostOverride) > 0 THEN hostOverride
                       ELSE UrlHost(t.requestURL),
              !.pc = "inflight",
              !.reqHost = IF Len(hostOverride) > 0 THEN hostOverride
                          ELSE UrlHost(t.requestURL),
              !.sent = @ + 1]

\* lines 169-196, with hostOverride decided: the host is resolved, the
\* request is built and handed to http.DefaultClient.Do
BuildAndSend(t, hostOverride) ==
    LET t1 == [t EXCEPT !.hostOverride = hostOverride] IN
    IF Len(hostOverride) = 0 /\ UrlParseFails(t.requestURL)
    THEN Finished(t1, "parse_error")
    ELSE LET host == IF Len(hostOverride) > 0
                     THEN hostOverride
                     ELSE UrlHost(t.requestURL)
             t2 == [t1 EXCEPT !.host = host]
         IN IF NewRequestFails(t.requestURL)
            THEN Finished(t2, "request_error")
            ELSE [t2 EXCEPT !.pc = "inflight",
                            !.reqHost = IF Len(hostOverride) > 0
                                        THEN hostOverride
                                        ELSE UrlHost(t.requestURL),
                            !.sent = @ + 1]

\* the WaitGroup counter after a step that took the goroutine from t to u
AfterStep(counter, t, u) == counter - (u.dones - t.dones)

\* a variant that strips one trailing slash only (strings.TrimSuffix)
RequestURLTrimOnce(urlPrefix, path) ==
    (IF urlPrefix # Empty /\ urlPrefix[Len(urlPrefix)] = "/"
     THEN SubSeq(urlPrefix, 1, Len(urlPrefix) - 1)
     ELSE urlPrefix) \o path

\* lines 161-162
RequestURL(urlPrefix, path) == TrimRight(urlPrefix, {"/"}) \o path

\* lines 159-165: the closure trims its argument, builds the URL and reads
\* the loop variable idx for the bounds test; without an override in range it
\* goes on to line 169
TaskBegin(c, i) ==
    /\ ~crashed
    /\ task[c][i].pc = "start"
    /\ LET t == task[c][i]
           t1 == [t EXCEPT !.urlPrefix = TrimRight(t.urlPrefix, {"/"}),
                           !.requestURL = RequestURL(t.urlPrefix, iRODSPath[c])]
           u == IF idx[c] < Len(VarnishHostsOverride)
                THEN [t1 EXCEPT !.pc = "readOverride"]
                ELSE BuildAndSend(t1, Empty)
       IN /\ task' = [task EXCEPT ![c][i] = u]
          /\ wg' = [wg EXCEPT ![c] = AfterStep(@, t, u)]
    /\ UNCHANGED << config, life, pc, evPath, evUuid, search, searches, purges, iRODSPath, idx,
                    iter, crashed >>

\* line 166: the closure reads idx again to index the override list; an
\* index past the end of the slice is a run-time panic, which ends the process
\* (the panic, its deferred wg.Done and the exit are taken as one step)
TaskReadOverride(c, i) ==
    /\ ~crashed
    /\ task[c][i].pc = "readOverride"
    /\ IF idx[c] < Len(VarnishHostsOverride)
       THEN LET t == task[c][i]
                u == BuildAndSend(t, VarnishHostsOverride[idx[c] + 1])
            IN /\ task' = [task EXCEPT ![c][i] = u]
               /\ wg' = [wg EXCEPT ![c] = AfterStep(@, t, u)]
               /\ UNCHANGED crashed
       ELSE /\ crashed' = TRUE
            /\ UNCHANGED << task, wg >>
    /\ UNCHANGED << config, life, pc, evPath, evUuid, search, searches, purges, iRODSPath, idx, iter >>

\* lines 196-207: the round trip ends with a transport error or a response
Outcome(r) ==
    IF r = TransportError THEN "transport_error"
    ELSE IF UnexpectedStatus(r) THEN "unexpected_status"
    ELSE "accepted"

\* a variant of the round trip that sends the request again after a
\* transport error
TaskResponseRetry(c, i, r) ==
    /\ ~crashed
    /\ task[c][i].pc = "inflight"
    /\ LET t == task[c][i]
           u == IF r = TransportError /\ t.sent < 2
                THEN [t EXCEPT !.sent = @ + 1]
                ELSE Finished([t EXCEPT !.resp = r], Outcome(r))
       IN /\ task' = [task EXCEPT ![c][i] = u]
          /\ wg' = [wg EXCEPT ![c] = AfterStep(@, t, u)]
    /\ UNCHANGED << config, life, pc, evPath, evUuid, search, searches, purges, iRODSPath, idx,
                    iter, crashed >>

\* a variant of the round trip in which a failure cancels the requests of
\* the other targets that are in flight
TaskResponseCancels(c, i, r) ==
    /\ ~crashed
    /\ task[c][i].pc = "inflight"
    /\ LET old == task[c]
           new == [j \in Targets |->
                     IF j = i
                     THEN Finished([old[j] EXCEPT !.resp = r], Outcome(r))
                     ELSE IF Outcome(r) # "accepted" /\ old[j].pc = "inflight"
                     THEN Finished(old[j], "transport_error")
                     ELSE old[j]]
       IN /\ task' = [task EXCEPT ![c] = new]
          /\ wg' = [wg EXCEPT ![c] =
                       @ - Cardinality({ j \in Targets : new[j].dones # old[j].dones })]
    /\ UNCHANGED << config, life, pc, evPath, evUuid, search, searches, purges, iRODSPath, idx,
                    iter, crashed >>

TaskResponse(c, i, r) ==
    /\ ~crashed
    /\ task[c][i].pc = "inflight"
    /\ LET t == task[c][i]
           u == Finished([t EXCEPT !.resp = r], Outcome(r))
       IN /\ task' = [task EXCEPT ![c][i] = u]
          /\ wg' = [wg EXCEPT ![c] = AfterStep(@, t, u)]
    /\ UNCHANGED << config, life, pc, evPath, evUuid, search, searches, purges, iRODSPath, idx,
                    iter, crashed >>

Next ==
    \/ \E c \in Calls, path \in Paths, uuid \in Uuids : fsEventHandler(c, path, uuid)
    \/ \E c \in Calls, err \in BOOLEAN, entries \in SeqsUpTo(EntryPaths, MaxEntries) :
          SearchByMeta(c, err, entries)
    \/ \E c \in Calls : purgeCache(c)
    \/ \E c \in Calls : PurgeLoop(c)
    \/ \E c \in Calls : PurgeJoin(c)
    \/ \E c \in Calls : PurgeReturn(c)
    \/ \E c \in Calls, i \in Targets : TaskBegin(c, i)
    \/ \E c \in Calls, i \in Targets : TaskReadOverride(c, i)
    \/ \E c \in Calls, i \in Targets, r \in Responses : TaskResponse(c, i, r)

Spec == Init /\ [][Next]_vars

\* ------------------------------------------- two invocations at a time
\* The monitor runs two invocations of fsEventHandler at once, each with a
\* path, over two cache nodes with no override or with one for the first.
PairPaths == { <<"/", "x">>, <<"/">> }

InitPair ==
    /\ VarnishURLPrefixes = << Http \o Cache1 \o <<"/">>, Http \o Cache2 \o <<"/", "/">> >>
    /\ VarnishHostsOverride \in { << >>, << EdgeExample >> }
    /\ deliveries = Calls
    /\ pc = [c \in Calls |-> "idle"]
    /\ evPath = [c \in Calls |-> Empty]
    /\ evUuid = [c \in Calls |-> Empty]
    /\ search = [c \in Calls |-> NoSearch]
    /\ searches = [c \in Calls |-> 0]
    /\ purges = [c \in Calls |-> 0]
    /\ iRODSPath = [c \in Calls |-> Empty]
    /\ idx = [c \in Calls |-> 0]
    /\ iter = [c \in Calls |-> 0]
    /\ wg = [c \in Calls |-> 0]
    /\ task = [c \in Calls |-> [i \in Targets |-> NoTask]]
    /\ crashed = FALSE
    /\ IRODSClient = 1
    /\ MessageQueueConnection = 1
    /\ sessions = << 0 >>
    /\ connections = << 0 >>
    /\ lastCall = [ op |-> "Start", err |-> FALSE, releases |-> 0,
                    disconnects |-> 0, prev |-> "Connect" ]
    /\ lifeCalls = 2

NextPair ==
    \/ \E c \in Calls, path \in PairPaths : fsEventHandler(c, path, Empty)
    \/ \E c \in Calls : purgeCache(c)
    \/ \E c \in Calls : PurgeLoop(c)
    \/ \E c \in Calls : PurgeJoin(c)
    \/ \E c \in Calls : PurgeReturn(c)
    \/ \E c \in Calls, i \in Targets : TaskBegin(c, i)
    \/ \E c \in Calls, i \in Targets : TaskReadOverride(c, i)
    \/ \E c \in Calls, i \in Targets, r \in Responses : TaskResponse(c, i, r)

SpecPair == InitPair /\ [][NextPair]_vars

\* ---------------------------------------------- Connect, Start, Destroy
\* lines 22-26: the service NewPurgeman returns, with no handle and no
\* monitor delivering events
InitLife ==
    /\ VarnishURLPrefixes = << >>
    /\ VarnishHostsOverride = << >>
    /\ deliveries = { }
    /\ pc = [c \in Calls |-> "idle"]
    /\ evPath = [c \in Calls |-> Empty]
    /\ evUuid = [c \in Calls |-> Empty]
    /\ search = [c \in Calls |-> NoSearch]
    /\ searches = [c \in Calls |-> 0]
    /\ purges = [c \in Calls |-> 0]
    /\ iRODSPath = [c \in Calls |-> Empty]
    /\ idx = [c \in Calls |-> 0]
    /\ iter = [c \in Calls |-> 0]
    /\ wg = [c \in Calls |-> 0]
    /\ task = [c \in Calls |-> [i \in Targets |-> NoTask]]
    /\ crashed = FALSE
    /\ IRODSClient = Nil
    /\ MessageQueueConnection = Nil
    /\ sessions = << >>
    /\ connections = << >>
    /\ lastCall = [ op |-> "NewPurgeman", err |-> FALSE, releases |-> 0,
                    disconnects |-> 0, prev |-> "none" ]
    /\ lifeCalls = 0

handler ==
    << VarnishURLPrefixes, VarnishHostsOverride, deliveries, pc, evPath, evUuid,
       search, searches, purges, iRODSPath, idx, iter, wg, task, crashed >>

ConnectOutcomes == { "account_error", "irods_error", "mq_error", "ok" }

\* one more Release of the session the handle h names
Release(h) == [sessions EXCEPT ![h] = @ + 1]

\* one more Disconnect of the connection the handle h names
Disconnect(h) == [connections EXCEPT ![h] = @ + 1]

\* lines 28-70: Connect fails before a session exists (lines 36-39, 43-46),
\* fails on the message queue with the session stored in the service and
\* released by the deferred call (lines 48, 62-66), or stores both handles
Connect(outcome) ==
    /\ lifeCalls < MaxLifeCalls
    /\ lifeCalls' = lifeCalls + 1
    /\ CASE outcome \in { "account_error", "irods_error" } ->
              /\ lastCall' = Called("Connect", TRUE, 0, 0)
              /\ UNCHANGED << IRODSClient, MessageQueueConnection, sessions,
                              connections >>
         [] outcome = "mq_error" ->
              /\ sessions' = Append(sessions, 1)
              /\ IRODSClient' = Len(sessions) + 1
              /\ lastCall' = Called("Connect", TRUE, 1, 0)
              /\ UNCHANGED << MessageQueueConnection, connections >>
         [] outcome = "ok" ->
              /\ sessions' = Append(sessions, 0)
              /\ IRODSClient' = Len(sessions) + 1
              /\ connections' = Append(connections, 0)
              /\ MessageQueueConnection' = Len(connections) + 1
              /\ lastCall' = Called("Connect", FALSE, 0, 0)
    /\ UNCHANGED handler

\* lines 72-90: MonitorFSChanges returns; on an error the deferred calls
\* release the session and disconnect the queue, and the handles stay as they
\* are.  Start is called on a service that holds a queue connection; a
\* connection that was disconnected cannot be monitored.
Start(err) ==
    /\ lifeCalls < MaxLifeCalls
    /\ MessageQueueConnection # Nil
    /\ connections[MessageQueueConnection] > 0 => err
    /\ lifeCalls' = lifeCalls + 1
    /\ IF err
       THEN /\ sessions' = IF IRODSClient # Nil THEN Release(IRODSClient) ELSE sessions
            /\ connections' = Disconnect(MessageQueueConnection)
            /\ lastCall' = Called("Start", TRUE, IF IRODSClient # Nil THEN 1 ELSE 0, 1)
       ELSE /\ lastCall' = Called("Start", FALSE, 0, 0)
            /\ UNCHANGED << sessions, connections >>
    /\ UNCHANGED << IRODSClient, MessageQueueConnection, handler >>

\* a variant of Destroy that leaves the handles in the service
DestroyKeepsHandles ==
    /\ lifeCalls < MaxLifeCalls
    /\ lifeCalls' = lifeCalls + 1
    /\ sessions' = IF IRODSClient # Nil THEN Release(IRODSClient) ELSE sessions
    /\ connections' = IF MessageQueueConnection # Nil
                      THEN Disconnect(MessageQueueConnection)
                      ELSE connections
    /\ lastCall' = Called("Destroy", FALSE,
                          IF IRODSClient # Nil THEN 1 ELSE 0,
                          IF MessageQueueConnection # Nil THEN 1 ELSE 0)
    /\ UNCHANGED << IRODSClient, MessageQueueConnection, handler >>

\* lines 93-110
Destroy ==
    /\ lifeCalls < MaxLifeCalls
    /\ lifeCalls' = lifeCalls + 1
    /\ sessions' = IF IRODSClient # Nil THEN Release(IRODSClient) ELSE sessions
    /\ IRODSClient' = Nil
    /\ connections' = IF MessageQueueConnection # Nil
                      THEN Disconnect(MessageQueueConnection)
                      ELSE connections
    /\ MessageQueueConnection' = Nil
    /\ lastCall' = Called("Destroy", FALSE,
                          IF IRODSClient # Nil THEN 1 ELSE 0,
                          IF MessageQueueConnection # Nil THEN 1 ELSE 0)
    /\ UNCHANGED handler

NextLife ==
    \/ \E outcome \in ConnectOutcomes : Connect(outcome)
    \/ \E err \in BOOLEAN : Start(err)
    \/ Destroy

SpecLife == InitLife /\ [][NextLife]_vars

\* ------------------------------------------------------------ properties
\* the URL the closure of target i builds in call c
BuiltURL(c, i) == RequestURL(VarnishURLPrefixes[i], iRODSPath[c])

Configured(i) == i <= Len(VarnishHostsOverride) /\ VarnishHostsOverride[i] # Empty

InPurge(c) == pc[c] \in { "loop", "wait", "returned" }

C2_ReturnsAfterAllTasks ==
    \A c \in Calls :
        pc[c] = "returned" =>
            /\ iter[c] = NumTargets
            /\ \A i \in Targets : task[c][i].pc = "done"

C2_Witness ==
    \E c \in Calls :
        /\ pc[c] = "returned"
        /\ NumTargets = 2
        /\ \A i \in Targets : task[c][i].pc = "done" /\ task[c][i].resp # NoResponse

\* C3: a request sent to the target at index i, when a non-empty override is
\* configured at index i, carries that override as its Host.
C3_OverrideOfOwnIndex ==
    \A c \in Calls : \A i \in Targets :
        (task[c][i].sent > 0 /\ Configured(i)) =>
            task[c][i].reqHost = VarnishHostsOverride[i]

\* C4: when purgeCache has returned and some target failed, every other
\* target has its own outcome: if its URL parses it was sent exactly once and
\* its outcome is the one of its own response; if not, it failed on its URL.
Failed(t) == t.pc = "done" /\ t.outcome # "accepted"

C4_FailureIsolation ==
    \A c \in Calls :
        pc[c] = "returned" =>
            \A i, j \in Targets :
                (i # j /\ Failed(task[c][i])) =>
                    IF UrlParseFails(BuiltURL(c, j))
                    THEN task[c][j].outcome \in { "parse_error", "request_error" }
                    ELSE /\ task[c][j].sent = 1
                         /\ task[c][j].resp \in Responses
                         /\ task[c][j].outcome = Outcome(task[c][j].resp)

C4_Witness ==
    \E c \in Calls :
        /\ pc[c] = "returned"
        /\ \E i, j \in Targets :
              /\ task[c][i].outcome = "transport_error"
              /\ task[c][j].outcome = "accepted"

\* C5: purgeCache has no fatal path: the process never aborts, and a call
\* that has not returned can always take a step (the loop, the join, or one of
\* its goroutines), so that under fair scheduling it returns.
CallStep(c) ==
    \/ purgeCache(c)
    \/ PurgeLoop(c)
    \/ PurgeJoin(c)
    \/ PurgeReturn(c)
    \/ \E i \in Targets : TaskBegin(c, i) \/ TaskReadOverride(c, i)
    \/ \E i \in Targets, r \in Responses : TaskResponse(c, i, r)

C5_NoFatalPath ==
    /\ ~crashed
    /\ \A c \in Calls : pc[c] \in { "purge", "loop", "wait" } => ENABLED CallStep(c)

\* C6: a request sent to a target that has no override at its index carries
\* as Host the host of its own request URL.
C6_HostOfOwnURL ==
    \A c \in Calls : \A i \in Targets :
        (task[c][i].sent > 0 /\ ~Configured(i)) =>
            task[c][i].reqHost = UrlHost(BuiltURL(c, i))

\* C7: the request URL of a target ends with the path, unchanged; what
\* precedes the path is the start of the prefix and does not end in '/', and
\* what the prefix has beyond it is nothing but '/'.
C7_RequestURL ==
    \A c \in Calls : \A i \in Targets :
        task[c][i].pc \notin { "none", "start" } =>
            LET url == task[c][i].requestURL
                prefix == VarnishURLPrefixes[i]
                k == Len(url) - Len(iRODSPath[c])
            IN /\ k >= 0
               /\ k <= Len(prefix)
               /\ SubSeq(url, k + 1, Len(url)) = iRODSPath[c]
               /\ SubSeq(url, 1, k) = SubSeq(prefix, 1, k)
               /\ (k > 0 => prefix[k] # "/")
               /\ \A m \in (k + 1)..Len(prefix) : prefix[m] = "/"

C7_Witness ==
    \E c \in Calls : \E i \in Targets :
        /\ VarnishURLPrefixes[i] = Http \o Cache2 \o <<"/", "/">>
        /\ iRODSPath[c] = <<"/">>
        /\ task[c][i].sent = 1
        /\ task[c][i].requestURL = Http \o Cache2 \o <<"/">>

\* C8: after the search, iRODSPath is the path of the entry if the query
\* succeeded with exactly one entry, and in every other case (no entry,
\* several entries, a query error) it is the empty string.
C8_Resolution ==
    \A c \in Calls :
        (pc[c] = "purge" /\ search[c].made) =>
            /\ (iRODSPath[c] # Empty) <=>
                   (~search[c].err /\ Len(search[c].entries) = 1)
            /\ (~search[c].err /\ Len(search[c].entries) = 1) =>
                   iRODSPath[c] = search[c].entries[1]

C8_Witness ==
    \E c \in Calls :
        /\ pc[c] = "purge"
        /\ search[c].made
        /\ ~search[c].err
        /\ search[c].entries = << <<"/", "x">> >>
        /\ iRODSPath[c] = <<"/", "x">>

\* C9: an event whose path and identifier are both empty causes no metadata
\* query and no PURGE request.
C9_EmptyEventDropped ==
    \A c \in Calls :
        (pc[c] # "idle" /\ evPath[c] = Empty /\ evUuid[c] = Empty) =>
            /\ searches[c] = 0
            /\ \A i \in Targets : task[c][i].sent = 0

\* C10: after a failed resolution (empty path, non-empty identifier, the
\* search made and iRODSPath empty) the handler goes on into purgeCache, every
\* goroutine builds the slash-stripped prefix as its URL, and every target has
\* been dispatched when the call returns.
FailedResolution(c) ==
    /\ evPath[c] = Empty
    /\ evUuid[c] # Empty
    /\ searches[c] = 1
    /\ iRODSPath[c] = Empty

C10_FailedResolutionStillPurges ==
    \A c \in Calls :
        (InPurge(c) /\ FailedResolution(c)) =>
            /\ purges[c] = 1
            /\ \A i \in Targets :
                  task[c][i].pc \notin { "none", "start" } =>
                      task[c][i].requestURL = TrimRight(VarnishURLPrefixes[i], {"/"})
            /\ pc[c] = "returned" => \A i \in Targets : task[c][i].pc = "done"

C10_Witness ==
    \E c \in Calls :
        /\ pc[c] = "returned"
        /\ FailedResolution(c)
        /\ NumTargets = 2
        /\ \E i \in Targets :
              /\ task[c][i].sent = 1
              /\ task[c][i].requestURL = Http \o Cache1


\* C12: the loop never waits for a goroutine: while the process runs, the
\* next iteration can start although goroutines started before it have not
\* ended, and a goroutine that has not sent yet can take its step while the
\* requests of all the other targets are in flight (they may never complete).
C12_ParallelDispatch ==
    ~crashed =>
        \A c \in deliveries :
            /\ (pc[c] = "loop" /\ iter[c] < NumTargets
                  /\ \E i \in Targets : task[c][i].pc \notin { "none", "done" })
                  => ENABLED PurgeLoop(c)
            /\ \A i \in Targets :
                  (/\ NumTargets > 1
                   /\ \A j \in Targets \ { i } : task[c][j].pc = "inflight") =>
                      /\ task[c][i].pc = "start" => ENABLED TaskBegin(c, i)
                      /\ task[c][i].pc = "readOverride" => ENABLED TaskReadOverride(c, i)

C12_Witness ==
    \E c \in Calls :
        /\ NumTargets = 2
        /\ \A i \in Targets : task[c][i].pc = "inflight" /\ task[c][i].sent = 1

\* C13: the handler searches the metadata index exactly when the path is
\* empty and the identifier is not, at most once and before purgeCache; with a
\* path given purgeCache gets exactly that path; purgeCache is called once.
C13_QueryOnlyWithoutPath ==
    \A c \in Calls :
        LET resolves == IF evPath[c] = Empty /\ evUuid[c] # Empty THEN 1 ELSE 0
        IN /\ searches[c] <= 1
           /\ purges[c] <= 1
           /\ pc[c] = "search" => (resolves = 1 /\ searches[c] = 0 /\ purges[c] = 0)
           /\ pc[c] = "purge" => (searches[c] = resolves /\ purges[c] = 0)
           /\ InPurge(c) =>
                 /\ searches[c] = resolves
                 /\ purges[c] = 1
                 /\ evPath[c] # Empty => iRODSPath[c] = evPath[c]

C13_Witness ==
    \E c \in Calls :
        /\ pc[c] = "returned"
        /\ evPath[c] = <<"/", "x">>
        /\ evUuid[c] # Empty
        /\ iRODSPath[c] = <<"/", "x">>
        /\ searches[c] = 0
        /\ purges[c] = 1

\* C14: a target without an override whose request URL does not parse sends
\* nothing and gets no response: its goroutine ends on the URL error; when the
\* call has returned every other target whose URL parses has been sent once.
C14_ParseFailureAbandons ==
    \A c \in Calls : \A i \in Targets :
        (~Configured(i) /\ task[c][i].pc \notin { "none", "start" }
            /\ UrlParseFails(task[c][i].requestURL)) =>
            /\ task[c][i].sent = 0
            /\ task[c][i].resp = NoResponse
            /\ task[c][i].reqHost = Empty
            /\ task[c][i].pc = "done" =>
                  task[c][i].outcome \in { "parse_error", "request_error" }
            /\ pc[c] = "returned" =>
                  \A j \in Targets :
                      (j # i /\ ~UrlParseFails(BuiltURL(c, j))) => task[c][j].sent = 1

C14_Witness ==
    \E c \in Calls :
        /\ pc[c] = "returned"
        /\ \E i, j \in Targets :
              /\ ~Configured(i)
              /\ task[c][i].outcome = "parse_error"
              /\ task[c][i].sent = 0
              /\ task[c][j].outcome = "accepted"

\* C15: a goroutine that has ended reports success exactly when it got a
\* response with 200 <= status < 300; any other status, a transport error and
\* a URL or construction error are failures, the last two without a request,
\* and no request is sent twice.
C15_SuccessIffStatus2xx ==
    \A c \in Calls : \A i \in Targets :
        LET t == task[c][i] IN
        /\ t.sent <= 1
        /\ t.pc = "done" =>
              /\ (t.outcome = "accepted") <=>
                     (t.resp \in StatusCodes /\ t.resp >= 200 /\ t.resp < 300)
              /\ t.resp = TransportError => t.outcome = "transport_error"
              /\ (t.resp \in StatusCodes /\ (t.resp < 200 \/ t.resp >= 300)) =>
                     t.outcome = "unexpected_status"
              /\ t.resp = NoResponse =>
                     (t.outcome \in { "parse_error", "request_error" } /\ t.sent = 0)

C15_Witness ==
    \E c \in Calls : \E i, j \in Targets :
        /\ task[c][i].pc = "done" /\ task[c][i].resp = 299
        /\ task[c][i].outcome = "accepted"
        /\ task[c][j].pc = "done" /\ task[c][j].resp = 300
        /\ task[c][j].outcome = "unexpected_status"

\* C19: a goroutine has called wg.Done once when it has ended and not
\* before; the counter is the number of goroutines started and not ended, so
\* never negative; the join is reached with every goroutine registered; the
\* join returns exactly when the counter is zero, which it is at the return.
C19_JoinCounter ==
    \A c \in Calls :
        /\ wg[c] >= 0
        /\ wg[c] = Cardinality({ i \in Targets :
                        task[c][i].pc \in { "start", "readOverride", "inflight" } })
        /\ \A i \in Targets :
              task[c][i].dones = IF task[c][i].pc = "done" THEN 1 ELSE 0
        /\ pc[c] \in { "wait", "returned" } =>
              \A i \in Targets : task[c][i].pc # "none"
        /\ pc[c] = "returned" => wg[c] = 0
        /\ (pc[c] = "wait" /\ ~crashed) => (ENABLED PurgeReturn(c) <=> wg[c] = 0)

C19_Witness ==
    \E c \in Calls :
        /\ pc[c] = "returned"
        /\ wg[c] = 0
        /\ \E i, j \in Targets :
              /\ task[c][i].outcome = "request_error" /\ task[c][i].dones = 1
              /\ task[c][j].outcome = "unexpected_status" /\ task[c][j].dones = 1


\* C16: no storage session is released more than once and no queue
\* connection is disconnected more than once, whatever Connect, Start and
\* Destroy calls are made and however they end.
C16_ReleasedAtMostOnce ==
    /\ \A k \in 1..Len(sessions) : sessions[k] <= 1
    /\ \A k \in 1..Len(connections) : connections[k] <= 1

\* C17: after Destroy both handles are nil; a Destroy that follows a Destroy,
\* and a Destroy of a service that never acquired anything, make no Release and
\* no Disconnect call.
C17_DestroyIdempotent ==
    lastCall.op = "Destroy" =>
        /\ IRODSClient = Nil
        /\ MessageQueueConnection = Nil
        /\ lastCall.prev = "Destroy" =>
              (lastCall.releases = 0 /\ lastCall.disconnects = 0)
        /\ (Len(sessions) = 0 /\ Len(connections) = 0) =>
              (lastCall.releases = 0 /\ lastCall.disconnects = 0)

C17_Witness ==
    /\ lastCall.op = "Destroy"
    /\ lastCall.prev = "Destroy"
    /\ Len(sessions) = 1
    /\ sessions[1] = 1
    /\ connections = << 1 >>
    /\ lastCall.releases = 0
    /\ lastCall.disconnects = 0

\* C18: after a Connect that returned nil both handles name a session and a
\* connection that are live; after a Connect that returned an error the
\* storage handle is nil and no session that was acquired is unreleased.
C18_ConnectAllOrNothing ==
    lastCall.op = "Connect" =>
        IF ~lastCall.err
        THEN /\ IRODSClient # Nil
             /\ sessions[IRODSClient] = 0
             /\ MessageQueueConnection # Nil
             /\ connections[MessageQueueConnection] = 0
        ELSE /\ IRODSClient = Nil
             /\ \A k \in 1..Len(sessions) : sessions[k] >= 1


\* C11: of two invocations that run at once each has its own requests: no
\* target is sent a request twice by one call, every URL is built from the
\* call's own path, a call that has returned has sent one request to each
\* target whose URL parses, and the join of a call waits for its own
\* goroutines only: with all of them ended it can return, whatever the other
\* call does.
C11_CallsDoNotInterfere ==
    \A c \in Calls :
        /\ \A i \in Targets :
              /\ task[c][i].sent <= 1
              /\ task[c][i].pc \notin { "none", "start" } =>
                    task[c][i].requestURL = BuiltURL(c, i)
        /\ pc[c] = "returned" =>
              \A i \in Targets :
                  /\ task[c][i].pc = "done"
                  /\ task[c][i].sent = IF UrlParseFails(BuiltURL(c, i)) THEN 0 ELSE 1
        /\ (pc[c] = "wait" /\ \A i \in Targets : task[c][i].pc = "done") =>
              ENABLED PurgeReturn(c)

====
